---------------------------- MODULE Spec2Model ----------------------------
(***************************************************************************)
(* Model of the myjobmag scraper (src/Mag10-11-25.py).                     *)
(*                                                                         *)
(* Text is a sequence of characters (one-character strings; the bullet     *)
(* glyph is the character "BULLET").  The emoji-and-bold labels of the     *)
(* output, which no operation of the script looks into, are one token      *)
(* each, followed by their trailing blank or newline.  A markup element    *)
(* that may be missing is a record with a `present` flag.                  *)
(* The pure functions of the script are operators                          *)
(* computed the way the code computes them; main() is a state machine      *)
(* whose program counter pc follows the statements of main().              *)
(***************************************************************************)
EXTENDS Integers, Sequences, FiniteSets, TLC

VARIABLES
    pc,          \* position in main() / in the function under check
    driver,      \* "none" | "open" | "quit": the browser session
    acquired,    \* number of sessions get_driver() has returned
    released,    \* number of driver.quit() calls
    used_in,     \* driver states in which a navigation / page read happened
    listing,     \* parsed listing document (sequence of anchors)
    job_links,   \* result of get_job_links
    idx,         \* 1-based position of the for loop in job_links[:10]
    data_rows,   \* accumulated batch
    kept,        \* per visited position: did the page load, parse and hold a contact
    visited,     \* job_url of each detail navigation, in order
    fault,       \* what the last step met
    prev_fault,  \* what the step before it met
    csv_writes,  \* number of times the csv block ran
    csv_file,    \* what it wrote
    pauses,      \* number of input() pauses
    soup,        \* parsed detail page handed to extract_job_data
    result,      \* what extract_job_data did with it
    block,       \* texts of the p/li tags handed to clean_and_format_text
    fmt          \* what clean_and_format_text computed

vars == <<pc, driver, acquired, released, used_in, listing, job_links, idx,
          data_rows, kept, visited, fault, prev_fault, csv_writes, csv_file, pauses,
          soup, result, block, fmt>>

---------------------------------------------------------------------------
(* Bounds of the model *)

MaxLinks == 11
MaxAnchors == 2
MaxLines == 3
MaxKeyInfo == 1

(* job_links[:10] *)
LinkCap == 10

---------------------------------------------------------------------------
(* Python str primitives on character sequences *)

Whitespace == {" ", "\t", "\n"}

LowerChars == <<"a", "b", "c", "d", "e", "f", "g", "h", "i", "j", "k", "l", "m",
                "n", "o", "p", "q", "r", "s", "t", "u", "v", "w", "x", "y", "z">>

UpperChars == <<"A", "B", "C", "D", "E", "F", "G", "H", "I", "J", "K", "L", "M",
                "N", "O", "P", "Q", "R", "S", "T", "U", "V", "W", "X", "Y", "Z">>

Digits == {"0", "1", "2", "3", "4", "5", "6", "7", "8", "9"}

Range(s) == {s[i] : i \in DOMAIN s}

Min(a, b) == IF a <= b THEN a ELSE b

(* \w of the regular expressions *)
WordChars == Range(LowerChars) \cup Range(UpperChars) \cup Digits \cup {"_"}

IsWordChar(c) == c \in WordChars

LowerChar(c) ==
    IF \E i \in DOMAIN UpperChars : UpperChars[i] = c
    THEN LowerChars[CHOOSE i \in DOMAIN UpperChars : UpperChars[i] = c]
    ELSE c

(* str.lower() *)
Lower(s) == [i \in DOMAIN s |-> LowerChar(s[i])]

(* str.startswith(p) *)
StartsWith(s, p) == Len(s) >= Len(p) /\ SubSeq(s, 1, Len(p)) = p

(* str.find(sub, from): first index >= from where sub occurs, 0 when none *)
Find(s, sub, from) ==
    LET hits == {i \in from..(Len(s) - Len(sub) + 1) : SubSeq(s, i, i + Len(sub) - 1) = sub}
    IN  IF hits = {} THEN 0 ELSE CHOOSE i \in hits : \A j \in hits : i <= j

(* sub in s *)
Contains(s, sub) == Find(s, sub, 1) # 0

(* str.lstrip(), str.rstrip(), str.strip() *)
RECURSIVE LStrip(_)
LStrip(s) == IF s # <<>> /\ Head(s) \in Whitespace THEN LStrip(Tail(s)) ELSE s

RECURSIVE RStrip(_)
RStrip(s) ==
    IF s # <<>> /\ s[Len(s)] \in Whitespace THEN RStrip(SubSeq(s, 1, Len(s) - 1)) ELSE s

Strip(s) == RStrip(LStrip(s))

(* str.split(sep) for a non-empty separator: non-overlapping, left to right *)
RECURSIVE Split(_, _)
Split(s, sep) ==
    LET at == Find(s, sep, 1)
    IN  IF at = 0 THEN <<s>>
        ELSE <<SubSeq(s, 1, at - 1)>> \o Split(SubSeq(s, at + Len(sep), Len(s)), sep)

(* sep.join(parts) *)
RECURSIVE Join(_, _)
Join(sep, parts) ==
    IF parts = <<>> THEN <<>>
    ELSE IF Len(parts) = 1 THEN parts[1]
    ELSE parts[1] \o sep \o Join(sep, Tail(parts))

(* re.sub(r'\s+', ' ', line) *)
RECURSIVE CollapseSpaces(_)
CollapseSpaces(s) ==
    IF s = <<>> THEN <<>>
    ELSE IF Head(s) \in Whitespace
         THEN <<" ">> \o CollapseSpaces(LStrip(s))
         ELSE <<Head(s)>> \o CollapseSpaces(Tail(s))

---------------------------------------------------------------------------
(* Literals of the script *)

Bullet == "BULLET"
BulletChars == {"-", "*", Bullet}
BulletPrefix == <<Bullet, " ">>
KW_requirement == <<"r", "e", "q", "u", "i", "r", "e", "m", "e", "n", "t">>
SEP_at == <<" ", "a", "t", " ">>
KW_location == <<"l", "o", "c", "a", "t", "i", "o", "n">>
KW_qualification == <<"q", "u", "a", "l", "i", "f", "i", "c", "a", "t", "i", "o", "n">>
KW_experience == <<"e", "x", "p", "e", "r", "i", "e", "n", "c", "e">>
KW_job_type == <<"j", "o", "b", " ", "t", "y", "p", "e">>
KW_field == <<"f", "i", "e", "l", "d">>
KW_salary == <<"s", "a", "l", "a", "r", "y">>
KW_deadline == <<"d", "e", "a", "d", "l", "i", "n", "e">>
KW_expires == <<"e", "x", "p", "i", "r", "e", "s">>
HDR_desc == <<"MEMO **Job Description:**", "\n">>
HDR_req == <<"PIN **Requirements:**", "\n">>
BASE_URL == <<"h", "t", "t", "p", "s", ":", "/", "/", "w", "w", "w", ".", "m", "y", "j",
              "o", "b", "m", "a", "g", ".", "c", "o", "m">>
JOB_PREFIX == <<"/", "j", "o", "b", "/">>

---------------------------------------------------------------------------
(* Text utilities *)

NoText == [present |-> FALSE, text |-> <<>>]
Elem(t) == [present |-> TRUE, text |-> t]

(* extract_text_safe(elem): elem.text is the element's get_text(strip=True) *)
extract_text_safe(elem) == IF elem.present THEN elem.text ELSE <<>>

EmailClass(c) == IsWordChar(c) \/ c \in {".", "-"}

(* last index of the maximal run of characters satisfying the class that
   starts at i; i - 1 when text[i] is not in it *)
RECURSIVE RunEnd(_, _, _)
RunEnd(text, i, word_only) ==
    IF i <= Len(text) /\ (IF word_only THEN IsWordChar(text[i]) ELSE EmailClass(text[i]))
    THEN RunEnd(text, i + 1, word_only)
    ELSE i - 1

(* end of the match of [\w\.-]+@[\w\.-]+\.\w+ anchored at i, 0 when none;
   both classes exclude "@", so the first group is the maximal run before
   the "@"; the second group is greedy and backtracks to the last "." that
   a word character follows *)
EmailEndAt(text, i) ==
    LET r == RunEnd(text, i, FALSE)
        a == r + 2
        b == RunEnd(text, a, FALSE)
        dots == {m \in (a + 1)..(b - 1) : text[m] = "." /\ IsWordChar(text[m + 1])}
    IN  IF r < i \/ r + 1 > Len(text) \/ text[r + 1] # "@" \/ dots = {}
        THEN 0
        ELSE RunEnd(text, (CHOOSE m \in dots : \A k \in dots : k <= m) + 1, TRUE)

(* extract_email(text): re.search takes the leftmost match *)
extract_email(text) ==
    LET starts == {i \in 1..Len(text) : EmailEndAt(text, i) # 0}
    IN  IF starts = {} THEN <<>>
        ELSE LET i == CHOOSE i \in starts : \A j \in starts : i <= j
             IN  SubSeq(text, i, EmailEndAt(text, i))

---------------------------------------------------------------------------
(* Content Formatter *)

(* lines 45-48: canonical bullet, collapsed whitespace, trimmed *)
NormalizeLine(line) ==
    LET lead == LStrip(line)
        bulleted == IF lead # <<>> /\ Head(lead) \in BulletChars
                    THEN BulletPrefix \o LStrip(Tail(lead))
                    ELSE line
    IN  Strip(CollapseSpaces(bulleted))

(* lines 38-42: texts of the p/li tags, empty ones skipped *)
RawLines(tags) == SelectSeq(tags, LAMBDA t : t # <<>>)

CleanedLines(raw_lines) == [i \in DOMAIN raw_lines |-> NormalizeLine(raw_lines[i])]

(* lines 50-60: the for loop over cleaned_lines, from position i on *)
RECURSIVE SplitLoop(_, _, _, _, _)
SplitLoop(cleaned_lines, i, section, description_lines, requirements_lines) ==
    IF i > Len(cleaned_lines)
    THEN [description_lines |-> description_lines, requirements_lines |-> requirements_lines]
    ELSE IF Contains(Lower(cleaned_lines[i]), KW_requirement)
         THEN SplitLoop(cleaned_lines, i + 1, "req", description_lines, requirements_lines)
         ELSE IF section = "desc"
              THEN SplitLoop(cleaned_lines, i + 1, section,
                             Append(description_lines, cleaned_lines[i]), requirements_lines)
              ELSE SplitLoop(cleaned_lines, i + 1, section,
                             description_lines, Append(requirements_lines, cleaned_lines[i]))

SplitSections(cleaned_lines) == SplitLoop(cleaned_lines, 1, "desc", <<>>, <<>>)

(* lines 62-68: header, then every line with the bullet marker *)
FormatSection(header, lines) ==
    IF lines = <<>> THEN <<>>
    ELSE header \o Join(<<"\n">>,
                        [i \in DOMAIN lines |->
                            IF StartsWith(lines[i], <<Bullet>>) THEN lines[i]
                            ELSE BulletPrefix \o lines[i]])

(* clean_and_format_text(block): block is the texts of its p/li tags *)
clean_and_format_text(tags) ==
    LET cleaned == CleanedLines(RawLines(tags))
        parts == SplitSections(cleaned)
    IN  [cleaned_lines |-> cleaned,
         description_lines |-> parts.description_lines,
         requirements_lines |-> parts.requirements_lines,
         formatted_desc |-> Strip(FormatSection(HDR_desc, parts.description_lines)),
         formatted_req |-> Strip(FormatSection(HDR_req, parts.requirements_lines))]

---------------------------------------------------------------------------
(* Job Record Extractor *)

SlugLen == 50

LBL_company == <<"OFFICE **Company:**", " ">>
LBL_location == <<"ROUND_PIN **Location:**", " ">>
LBL_qualification == <<"CAP **Qualification:**", " ">>
LBL_experience == <<"HOURGLASS **Experience:**", " ">>
LBL_job_type == <<"BRIEFCASE **Job Type:**", " ">>
LBL_salary == <<"MONEYBAG **Salary:**", " ">>
LBL_field == <<"MICROSCOPE **Field:**", " ">>
FIELD_post_category == <<"j", "o", "b">>
S_at == <<" ", "a", "t", " ">>
S_in == <<" ", "i", "n", " ">>
S_ReadMoreAbout == <<"R", "e", "a", "d", " ", "m", "o", "r", "e", " ", "a", "b", "o", "u", "t">>
ParagraphBreak == <<"\n", "\n">>

(* lines 74-80: h1.text is h1.get_text(" ", strip=True) *)
TitleCompany(h1) ==
    IF ~h1.present THEN [title |-> <<>>, company |-> <<>>]
    ELSE LET parts == Split(h1.text, SEP_at)
         IN  [title |-> Strip(parts[1]),
              company |-> IF Len(parts) > 1 THEN Strip(parts[2]) ELSE <<>>]

(* lines 82-90: the company-details container's first p, else the p that
   follows the first link whose string contains "Read more about" *)
CompanyTagline(page) ==
    IF page.company_details.present
    THEN extract_text_safe(page.company_details.p)
    ELSE LET hits == {i \in DOMAIN page.anchors :
                        Contains(page.anchors[i].string, S_ReadMoreAbout)}
         IN  IF hits = {} THEN <<>>
             ELSE extract_text_safe(
                      page.anchors[CHOOSE i \in hits : \A j \in hits : i <= j].next_p)

NoKeyInfo == [location |-> <<>>, qualification |-> <<>>, experience |-> <<>>,
              job_type |-> <<>>, field |-> <<>>, salary |-> <<>>, job_expires |-> <<>>]

(* lines 94-110: the for loop over the key-info entries, from position i on *)
RECURSIVE KeyInfoLoop(_, _, _)
KeyInfoLoop(key_info, i, f) ==
    IF i > Len(key_info) THEN f
    ELSE LET key == Lower(extract_text_safe(key_info[i].jkey_title))
             val == extract_text_safe(key_info[i].jkey_info)
         IN  KeyInfoLoop(key_info, i + 1,
                 IF Contains(key, KW_location) THEN [f EXCEPT !.location = val]
                 ELSE IF Contains(key, KW_qualification) THEN [f EXCEPT !.qualification = val]
                 ELSE IF Contains(key, KW_experience) THEN [f EXCEPT !.experience = val]
                 ELSE IF Contains(key, KW_job_type) THEN [f EXCEPT !.job_type = val]
                 ELSE IF Contains(key, KW_field) THEN [f EXCEPT !.field = val]
                 ELSE IF Contains(key, KW_salary) THEN [f EXCEPT !.salary = val]
                 ELSE IF Contains(key, KW_deadline) \/ Contains(key, KW_expires)
                      THEN [f EXCEPT !.job_expires = val]
                 ELSE f)

(* lines 112-115 *)
DescriptionRequirements(page) ==
    IF page.job_details.present
    THEN LET r == clean_and_format_text(page.job_details.tags)
         IN  [description |-> r.formatted_desc, requirements |-> r.formatted_req]
    ELSE [description |-> <<>>, requirements |-> <<>>]

(* lines 117-125: raised is the AttributeError of calling .get_text on the
   None that find_next('div') returns when no div follows the heading; the
   two locals still hold '' then *)
ApplicationContact(page) ==
    LET h2 == page.application_method
        div == h2.next_div
    IN  IF ~h2.present
        THEN [raised |-> FALSE, application_email |-> <<>>, application_url |-> <<>>]
        ELSE IF ~div.present
        THEN [raised |-> TRUE, application_email |-> <<>>, application_url |-> <<>>]
        ELSE [raised |-> FALSE,
              application_email |-> extract_email(div.text),
              application_url |->
                  IF ~div.a.present THEN <<>>
                  ELSE IF StartsWith(div.a.href, <<"/">>) THEN BASE_URL \o div.a.href
                  ELSE div.a.href]

(* str.split() without argument: the maximal runs of non-whitespace *)
RECURSIVE SplitWords(_)
SplitWords(s) ==
    LET t == LStrip(s)
        ws == {i \in DOMAIN t : t[i] \in Whitespace}
        cut == IF ws = {} THEN Len(t) + 1 ELSE CHOOSE i \in ws : \A j \in ws : i <= j
    IN  IF t = <<>> THEN <<>>
        ELSE <<SubSeq(t, 1, cut - 1)>> \o SplitWords(SubSeq(t, cut, Len(t)))

(* line 130 *)
Slug(title) ==
    LET joined == Join(<<"-">>, SplitWords(Lower(title)))
    IN  SubSeq(joined, 1, Min(Len(joined), SlugLen))

(* lines 134-144 *)
CombinedInfo(company, k, d) ==
    Strip(LBL_company \o company \o ParagraphBreak
          \o LBL_location \o k.location \o ParagraphBreak
          \o LBL_qualification \o k.qualification \o ParagraphBreak
          \o LBL_experience \o k.experience \o ParagraphBreak
          \o LBL_job_type \o k.job_type \o ParagraphBreak
          \o LBL_salary \o k.salary \o ParagraphBreak
          \o LBL_field \o k.field \o ParagraphBreak
          \o d.description \o ParagraphBreak
          \o d.requirements)

(* the keys of the returned dict, in insertion order *)
RowKeys == <<"post_title", "company", "company_tagline", "job_location", "job_type",
             "job_salary", "job_expires", "job_category", "required_qualifications",
             "skills_required", "application_url", "application_email", "slug",
             "post_category", "post_tag", "subcategory", "post_content">>

(* what a call ends with: kind is "raise", "None" or "row" *)
Raised == [kind |-> "raise", row |-> <<>>]
None == [kind |-> "None", row |-> <<>>]
Row(r) == [kind |-> "row", row |-> r]

(* extract_job_data(soup) *)
extract_job_data(page) ==
    LET tc == TitleCompany(page.h1)
        k == KeyInfoLoop(page.key_info, 1, NoKeyInfo)
        d == DescriptionRequirements(page)
        c == ApplicationContact(page)
    IN  IF c.raised THEN Raised
        ELSE IF c.application_email = <<>> /\ c.application_url = <<>> THEN None
        ELSE Row([post_title |-> tc.title
                                 \o (IF tc.company # <<>> THEN S_at \o tc.company ELSE <<>>)
                                 \o (IF k.location # <<>> THEN S_in \o k.location ELSE <<>>),
                  company |-> tc.company,
                  company_tagline |-> CompanyTagline(page),
                  job_location |-> k.location,
                  job_type |-> k.job_type,
                  job_salary |-> k.salary,
                  job_expires |-> k.job_expires,
                  job_category |-> k.field,
                  required_qualifications |-> k.qualification,
                  skills_required |-> <<>>,
                  application_url |-> c.application_url,
                  application_email |-> c.application_email,
                  slug |-> Slug(tc.title),
                  post_category |-> FIELD_post_category,
                  post_tag |-> k.field,
                  subcategory |-> k.field,
                  post_content |-> CombinedInfo(tc.company, k, d)])

---------------------------------------------------------------------------
(* Link Collector *)

(* the three selectors of lines 168-172: an anchor below an h2 below a div
   of class `container` ("" when the selector names no container), whose
   href starts with `prefix` *)
selectors == <<[container |-> "mag-b", prefix |-> JOB_PREFIX],
               [container |-> "job-listing", prefix |-> JOB_PREFIX],
               [container |-> "", prefix |-> JOB_PREFIX]>>

(* soup.select(selector): the matching anchors in document order; an anchor
   is [within: the classes of the divs that hold an h2 holding it,
       has_href, href] *)
Matches(a, sel) ==
    /\ a.has_href
    /\ StartsWith(a.href, sel.prefix)
    /\ (sel.container = "" \/ sel.container \in a.within)

Select(doc, sel) == SelectSeq(doc, LAMBDA a : Matches(a, sel))

Hrefs(anchors) == [i \in DOMAIN anchors |-> anchors[i].href]

(* line 179 *)
FallbackScan(doc) ==
    Hrefs(SelectSeq(doc, LAMBDA a : a.has_href /\ Contains(a.href, JOB_PREFIX)))

(* lines 173-179: the for loop over selectors, from position i on *)
RECURSIVE SelectorLoop(_, _)
SelectorLoop(doc, i) ==
    IF i > Len(selectors) THEN FallbackScan(doc)
    ELSE LET links == Hrefs(Select(doc, selectors[i]))
         IN  IF links # <<>> THEN links ELSE SelectorLoop(doc, i + 1)

(* a plausible slip: merge the matches of every strategy *)
get_job_links_union(doc) ==
    Hrefs(Select(doc, selectors[1])) \o Hrefs(Select(doc, selectors[2]))
        \o Hrefs(Select(doc, selectors[3]))

(* get_job_links(soup) *)
get_job_links(doc) == SelectorLoop(doc, 1)

---------------------------------------------------------------------------
(* Crawl Orchestrator: the pieces of scrape_job and main *)

NavOutcomes == {"ok", "nav_error", "wait_timeout"}

(* line 209 *)
JobUrl(link) == IF StartsWith(link, <<"/">>) THEN BASE_URL \o link ELSE link

(* a plausible slip: no cap on the links visited *)
Capped_all(links) == links

(* line 208: job_links[:10] *)
Capped(links) == SubSeq(links, 1, Min(Len(links), LinkCap))

(* scrape_job(driver, job_url), lines 184-191: nav is what driver.get and
   the wait for the body met, page the document parsed from page_source;
   every exception ends in the handler's return None *)
scrape_job(nav, page) ==
    IF nav # "ok" THEN None
    ELSE LET r == extract_job_data(page)
         IN  IF r.kind = "raise" THEN None ELSE r

(* did the visit load the page, and does the page hold a div after the
   application-method heading with an email or a link target in it *)
Kept(nav, page) ==
    /\ nav = "ok"
    /\ page.application_method.present
    /\ page.application_method.next_div.present
    /\ \/ extract_email(page.application_method.next_div.text) # <<>>
       \/ /\ page.application_method.next_div.a.present
          /\ page.application_method.next_div.a.href # <<>>

(* what the call met: the exception of line 189, or the None of line 128 *)
Fault(nav, page) ==
    IF nav # "ok" THEN nav
    ELSE IF page.application_method.present /\ ~page.application_method.next_div.present
         THEN "parse_error"
    ELSE IF Kept(nav, page) THEN "no_fault"
    ELSE "no_contact"

(* a plausible slip: a skipped page throws the batch away *)
RecordOrSkip_reset(rows, ret) == IF ret.kind = "row" THEN Append(rows, ret.row) ELSE <<>>

(* lines 212-213: a returned dict has 17 keys, so `if row` is `row is not None` *)
RecordOrSkip(rows, ret) == IF ret.kind = "row" THEN Append(rows, ret.row) ELSE rows

(* a plausible slip: the file is written whatever the batch holds *)
HasData_always(rows) == TRUE

(* line 218: if data_rows *)
HasData(rows) == rows # <<>>

(* lines 223-226: header from the first row's keys, then the rows *)
CsvOf(rows) == [fieldnames |-> RowKeys, rows |-> rows]

NoCsv == [fieldnames |-> <<>>, rows |-> <<>>]

---------------------------------------------------------------------------
(* Inputs *)

T_Dev == <<"D", "e", "v">>
T_DevAtAcme == <<"D", "e", "v", " ", "a", "t", " ", "A", "c", "m", "e">>
T_DevAtAcmeAtLagos == <<"D", "e", "v", " ", "a", "t", " ", "A", "c", "m", "e", " ", "a", "t", " ", "L", "a", "g", "o", "s">>
T_Acme == <<"A", "c", "m", "e">>
T_AcmeAtLagos == <<"A", "c", "m", "e", " ", "a", "t", " ", "L", "a", "g", "o", "s">>
T_Lagos == <<"L", "a", "g", "o", "s">>
T_Tagline == <<"W", "e", " ", "b", "u", "i", "l", "d">>
T_About == <<"A", "b", "o", "u", "t", " ", "u", "s">>
T_ReadMore == <<"R", "e", "a", "d", " ", "m", "o", "r", "e", " ", "a", "b", "o", "u", "t", " ", "A", "c", "m", "e">>
T_LblLocation == <<"L", "o", "c", "a", "t", "i", "o", "n">>
T_LblJobType == <<"J", "o", "b", " ", "T", "y", "p", "e">>
T_LblJobField == <<"J", "o", "b", " ", "F", "i", "e", "l", "d">>
T_FullTime == <<"F", "u", "l", "l", " ", "T", "i", "m", "e">>
T_IT == <<"I", "T">>
T_MailText == <<"S", "e", "n", "d", " ", "C", "V", " ", "t", "o", " ", "h", "r", "@", "a", "c", "m", "e", ".", "c", "o", ".", "u", "k", " ", "o", "r", " ", "t", "o", " ", "c", "v", "@", "a", "c", "m", "e", ".", "n", "g">>
T_NoMailText == <<"A", "p", "p", "l", "y", " ", "o", "n", "l", "i", "n", "e">>
T_BadMail == <<"h", "r", "@", "a", "c", "m", "e">>
T_Email == <<"h", "r", "@", "a", "c", "m", "e", ".", "c", "o", ".", "u", "k">>
T_ReqHeading == <<"R", "e", "q", "u", "i", "r", "e", "m", "e", "n", "t", "s", ":">>
T_ReqUpper == <<"J", "O", "B", " ", "R", "E", "Q", "U", "I", "R", "E", "M", "E", "N", "T">>
T_Duties == <<"D", "u", "t", "i", "e", "s">>
T_Degree == <<"-", " ", "B", "S", "c", " ", " ", "d", "e", "g", "r", "e", "e">>
T_MinReq == <<"BULLET", " ", "M", "i", "n", "i", "m", "u", "m", " ", "r", "e", "q", "u", "i", "r", "e", "m", "e", "n", "t", ":", " ", "3", " ", "y", "e", "a", "r", "s">>
T_Require == <<"W", "e", " ", "r", "e", "q", "u", "i", "r", "e", " ", "g", "r", "i", "t">>
H_Apply == <<"/", "a", "p", "p", "l", "y", "/", "1">>
H_External == <<"h", "t", "t", "p", "s", ":", "/", "/", "x", ".", "i", "o", "/", "a">>
H_Job1 == <<"/", "j", "o", "b", "/", "1">>
H_Job2 == <<"/", "j", "o", "b", "/", "2">>
H_JobAbs == <<"h", "t", "t", "p", "s", ":", "/", "/", "x", ".", "i", "o", "/", "j", "o", "b", "/", "3">>
H_About == <<"/", "a", "b", "o", "u", "t">>

(* sequences over S of length at most n *)
SeqsUpTo(S, n) == UNION {[1..k -> S] : k \in 0..n}

NoLink == [present |-> FALSE, href |-> <<>>]
Link(h) == [present |-> TRUE, href |-> h]
NoDiv == [present |-> FALSE, text |-> <<>>, a |-> NoLink]
Div(t, a) == [present |-> TRUE, text |-> t, a |-> a]
NoHeading == [present |-> FALSE, next_div |-> NoDiv]
Heading(div) == [present |-> TRUE, next_div |-> div]

(* the application-method part of a detail page: no heading, a heading
   with no div after it, a div with and without an email and a link *)
MethodBlocks ==
    {NoHeading, Heading(NoDiv)}
    \cup {Heading(Div(t, a)) : t \in {<<>>, T_NoMailText, T_BadMail, T_MailText},
                               a \in {NoLink, Link(<<>>), Link(H_Apply), Link(H_External)}}

KeyInfoEntries ==
    {[jkey_title |-> Elem(T_LblLocation), jkey_info |-> Elem(T_Lagos)],
     [jkey_title |-> Elem(T_LblJobType), jkey_info |-> NoText],
     [jkey_title |-> Elem(T_LblJobField), jkey_info |-> Elem(T_IT)],
     [jkey_title |-> NoText, jkey_info |-> Elem(T_FullTime)]}

NoCompanyDetails == [present |-> FALSE, p |-> NoText]

(* detail pages: every element of the page present or absent *)
Pages ==
    [h1 : {NoText, Elem(T_Dev), Elem(T_DevAtAcme), Elem(T_DevAtAcmeAtLagos)},
     company_details : {NoCompanyDetails, [present |-> TRUE, p |-> NoText],
                        [present |-> TRUE, p |-> Elem(T_Tagline)]},
     anchors : {<<>>, <<[string |-> T_ReadMore, next_p |-> Elem(T_About)]>>},
     key_info : SeqsUpTo(KeyInfoEntries, MaxKeyInfo),
     job_details : {[present |-> FALSE, tags |-> <<>>],
                    [present |-> TRUE, tags |-> <<>>],
                    [present |-> TRUE, tags |-> <<T_Duties, T_ReqHeading, T_Degree>>]},
     application_method : MethodBlocks]

NoPage == [h1 |-> NoText, company_details |-> NoCompanyDetails, anchors |-> <<>>,
           key_info |-> <<>>, job_details |-> [present |-> FALSE, tags |-> <<>>],
           application_method |-> NoHeading]

(* the detail pages the crawl meets at position i: the heading names the
   position, the page has an email, no contact, or a heading with no div *)
PosTitle(i) == <<"J", "o", "b", " ", LowerChars[i]>> \o S_at \o T_Acme

CrawlPage(i, m) == [NoPage EXCEPT !.h1 = Elem(PosTitle(i)), !.application_method = m]

ContactPage(i) == CrawlPage(i, Heading(Div(T_Email, NoLink)))

CrawlPages(i) == {ContactPage(i), CrawlPage(i, NoHeading), CrawlPage(i, Heading(NoDiv))}

(* listing documents of the function check *)
Anchors ==
    [within : {{}, {"mag-b"}, {"job-listing"}},
     has_href : {TRUE},
     href : {H_Job1, H_Job2, H_JobAbs, H_About}]
    \cup {[within |-> {"mag-b"}, has_href |-> FALSE, href |-> <<>>]}

ListingDocs == SeqsUpTo(Anchors, MaxAnchors)

(* listing documents of the crawl: n anchors of one layout; the hrefs
   repeat with period 3, so a longer listing holds duplicates *)
CrawlHref(style, j) ==
    IF style = "mag-b" THEN JOB_PREFIX \o <<LowerChars[(j % 3) + 1]>>
    ELSE IF style = "absolute" THEN H_JobAbs \o <<LowerChars[(j % 3) + 1]>>
    ELSE H_About

CrawlDoc(n, style) ==
    [j \in 1..n |-> [within |-> IF style = "mag-b" THEN {"mag-b"} ELSE {},
                     has_href |-> TRUE, href |-> CrawlHref(style, j)]]

CrawlDocs == {CrawlDoc(n, "mag-b") : n \in 0..MaxLinks}
             \cup {CrawlDoc(n, style) : n \in 1..MaxAnchors, style \in {"absolute", "other"}}

LinePool == {T_ReqHeading, T_ReqUpper, T_Duties, T_Degree, T_MinReq, T_Require}

Blocks == SeqsUpTo(LinePool, MaxLines)

NoFmt == [cleaned_lines |-> <<>>, description_lines |-> <<>>, requirements_lines |-> <<>>,
          formatted_desc |-> <<>>, formatted_req |-> <<>>]

---------------------------------------------------------------------------
(* main() *)

Idle ==
    /\ driver = "none" /\ acquired = 0 /\ released = 0 /\ used_in = {}
    /\ listing = <<>> /\ job_links = <<>> /\ idx = 0
    /\ data_rows = <<>> /\ kept = <<>> /\ visited = <<>>
    /\ fault = "no_fault" /\ prev_fault = "no_fault" /\ csv_writes = 0 /\ csv_file = NoCsv /\ pauses = 0
    /\ soup = NoPage /\ result = None /\ block = <<>> /\ fmt = NoFmt

Init == pc = "init" /\ Idle

(* a plausible slip: the session is left open *)
Quit_skipped == UNCHANGED <<driver, released>>

(* driver.quit(), lines 203 and 216 *)
Quit == driver' = "quit" /\ released' = released + 1

(* a navigation or a read of page_source on the session, as it is now *)
Uses == used_in' = used_in \cup {driver}

(* line 195: get_driver() returns a session or raises out of main *)
GetDriver ==
    /\ pc = "init"
    /\ \E ok \in BOOLEAN :
          IF ok
          THEN /\ driver' = "open" /\ acquired' = acquired + 1
               /\ pc' = "listing" /\ fault' = "no_fault"
          ELSE /\ pc' = "raised" /\ fault' = "session_error"
               /\ UNCHANGED <<driver, acquired>>
    /\ UNCHANGED <<released, used_in, listing, job_links, idx, data_rows, kept,
                   visited, prev_fault, csv_writes, csv_file, pauses, soup, result,
                   block, fmt>>

(* lines 196-201: the listing page is loaded outside any try block, so a
   navigation error or a wait timeout leaves main as an exception *)
LoadListing ==
    /\ pc = "listing"
    /\ Uses
    /\ \E nav \in NavOutcomes :
          IF nav = "ok"
          THEN \E doc \in CrawlDocs :
                  /\ listing' = doc
                  /\ job_links' = get_job_links(doc)
                  /\ pc' = "links" /\ fault' = "no_fault"
          ELSE /\ pc' = "raised" /\ fault' = nav
               /\ UNCHANGED <<listing, job_links>>
    /\ UNCHANGED <<driver, acquired, released, idx, data_rows, kept, visited,
                   prev_fault, csv_writes, csv_file, pauses, soup, result, block, fmt>>

(* lines 202-203: no links, the session is released *)
NoLinksExit ==
    /\ pc = "links" /\ job_links = <<>>
    /\ Quit
    /\ pc' = "exit_pause"
    /\ UNCHANGED <<acquired, used_in, listing, job_links, idx, data_rows, kept,
                   visited, fault, prev_fault, csv_writes, csv_file, pauses, soup, result, block, fmt>>

(* lines 204-205: input(), return *)
ExitPause ==
    /\ pc = "exit_pause"
    /\ pauses' = pauses + 1
    /\ pc' = "done"
    /\ UNCHANGED <<driver, acquired, released, used_in, listing, job_links, idx, data_rows,
                   kept, visited, fault, prev_fault, csv_writes, csv_file, soup, result, block, fmt>>

(* lines 207-208: the batch starts empty, the loop at the first link *)
StartLoop ==
    /\ pc = "links" /\ job_links # <<>>
    /\ data_rows' = <<>> /\ idx' = 1
    /\ pc' = "loop"
    /\ UNCHANGED <<driver, acquired, released, used_in, listing, job_links, kept,
                   visited, fault, prev_fault, csv_writes, csv_file, pauses, soup, result, block, fmt>>

(* lines 208-214: one iteration, scrape_job included *)
ScrapeJob ==
    /\ pc = "loop" /\ idx <= Len(Capped(job_links))
    /\ Uses
    /\ \E nav \in NavOutcomes, page \in CrawlPages(idx) :
          LET row == scrape_job(nav, page)
          IN  /\ visited' = Append(visited, JobUrl(Capped(job_links)[idx]))
              /\ data_rows' = RecordOrSkip(data_rows, row)
              /\ kept' = Append(kept, Kept(nav, page))
              /\ fault' = Fault(nav, page)
              /\ prev_fault' = fault
              /\ soup' = IF nav = "ok" THEN page ELSE NoPage
              /\ result' = row
    /\ idx' = idx + 1
    /\ UNCHANGED <<pc, driver, acquired, released, listing, job_links, csv_writes,
                   csv_file, pauses, block, fmt>>

(* line 216: the loop is over, the session is released *)
LoopEnd ==
    /\ pc = "loop" /\ idx > Len(Capped(job_links))
    /\ Quit
    /\ pc' = "flush"
    /\ UNCHANGED <<acquired, used_in, listing, job_links, idx, data_rows, kept,
                   visited, fault, prev_fault, csv_writes, csv_file, pauses, soup, result, block, fmt>>

(* lines 218-230: the csv block runs when the batch holds a row *)
Flush ==
    /\ pc = "flush"
    /\ IF HasData(data_rows)
       THEN csv_writes' = csv_writes + 1 /\ csv_file' = CsvOf(data_rows)
       ELSE UNCHANGED <<csv_writes, csv_file>>
    /\ pc' = "pause"
    /\ UNCHANGED <<driver, acquired, released, used_in, listing, job_links, idx, data_rows,
                   kept, visited, fault, prev_fault, pauses, soup, result, block, fmt>>

(* line 232: input() *)
Pause ==
    /\ pc = "pause"
    /\ pauses' = pauses + 1
    /\ pc' = "done"
    /\ UNCHANGED <<driver, acquired, released, used_in, listing, job_links, idx, data_rows,
                   kept, visited, fault, prev_fault, csv_writes, csv_file, soup, result, block, fmt>>

Next ==
    \/ GetDriver
    \/ LoadListing
    \/ NoLinksExit
    \/ ExitPause
    \/ StartLoop
    \/ ScrapeJob
    \/ LoopEnd
    \/ Flush
    \/ Pause

Spec == Init /\ [][Next]_vars

---------------------------------------------------------------------------
(* get_job_links on every listing document of the bounded set *)

InitLinks ==
    /\ pc = "call_links"
    /\ listing \in ListingDocs
    /\ driver = "none" /\ acquired = 0 /\ released = 0 /\ used_in = {}
    /\ job_links = <<>> /\ idx = 0
    /\ data_rows = <<>> /\ kept = <<>> /\ visited = <<>>
    /\ fault = "no_fault" /\ prev_fault = "no_fault" /\ csv_writes = 0 /\ csv_file = NoCsv /\ pauses = 0
    /\ soup = NoPage /\ result = None /\ block = <<>> /\ fmt = NoFmt

CallLinks ==
    /\ pc = "call_links"
    /\ job_links' = get_job_links(listing)
    /\ pc' = "ret_links"
    /\ UNCHANGED <<driver, acquired, released, used_in, listing, idx, data_rows, kept,
                   visited, fault, prev_fault, csv_writes, csv_file, pauses, soup, result, block, fmt>>

SpecLinks == InitLinks /\ [][CallLinks]_vars

(* extract_job_data on every detail page of the bounded set *)

InitExtract ==
    /\ pc = "call_extract"
    /\ soup \in Pages
    /\ driver = "none" /\ acquired = 0 /\ released = 0 /\ used_in = {}
    /\ listing = <<>> /\ job_links = <<>> /\ idx = 0
    /\ data_rows = <<>> /\ kept = <<>> /\ visited = <<>>
    /\ fault = "no_fault" /\ prev_fault = "no_fault" /\ csv_writes = 0 /\ csv_file = NoCsv /\ pauses = 0
    /\ result = None /\ block = <<>> /\ fmt = NoFmt

CallExtract ==
    /\ pc = "call_extract"
    /\ result' = extract_job_data(soup)
    /\ pc' = "ret_extract"
    /\ UNCHANGED <<driver, acquired, released, used_in, listing, job_links, idx, data_rows,
                   kept, visited, fault, prev_fault, csv_writes, csv_file, pauses, soup, block, fmt>>

SpecExtract == InitExtract /\ [][CallExtract]_vars

(* clean_and_format_text on every block of the bounded set *)

InitFormat ==
    /\ pc = "call_format"
    /\ block \in Blocks
    /\ driver = "none" /\ acquired = 0 /\ released = 0 /\ used_in = {}
    /\ listing = <<>> /\ job_links = <<>> /\ idx = 0
    /\ data_rows = <<>> /\ kept = <<>> /\ visited = <<>>
    /\ fault = "no_fault" /\ prev_fault = "no_fault" /\ csv_writes = 0 /\ csv_file = NoCsv /\ pauses = 0
    /\ soup = NoPage /\ result = None /\ fmt = NoFmt

CallFormat ==
    /\ pc = "call_format"
    /\ fmt' = clean_and_format_text(block)
    /\ pc' = "ret_format"
    /\ UNCHANGED <<driver, acquired, released, used_in, listing, job_links, idx, data_rows,
                   kept, visited, fault, prev_fault, csv_writes, csv_file, pauses, soup, result, block>>

SpecFormat == InitFormat /\ [][CallFormat]_vars

---------------------------------------------------------------------------
(* Properties *)

(* main() has left the per-link loop, or never entered it *)
LoopOver == pc \in {"exit_pause", "flush", "pause", "done"}

(* C1: a run of main navigates to exactly the first min(|L|, 10) links of
   the collected sequence L, once each and in listing order; nothing at
   position 11 or later is visited, and nothing at all when L is empty *)
C1_VisitsFirstTenInOrder ==
    /\ Len(visited) <= Min(Len(job_links), LinkCap)
    /\ \A i \in DOMAIN visited : visited[i] = JobUrl(job_links[i])
    /\ LoopOver => Len(visited) = Min(Len(job_links), LinkCap)
    /\ job_links = <<>> => visited = <<>>

(* a listing of more than ten links, crawled to the end *)
C1_Witness ==
    /\ pc = "done"
    /\ Len(job_links) > LinkCap
    /\ Len(visited) = LinkCap
    /\ visited[LinkCap] = JobUrl(job_links[LinkCap])

(* the rows of the pages that loaded, parsed and held a contact, in link
   order; the contact page met at position i is ContactPage(i) *)
ContactRows == [i \in DOMAIN LowerChars |-> extract_job_data(ContactPage(i)).row]

RECURSIVE ExpectedRows(_, _)
ExpectedRows(flags, i) ==
    IF i > Len(flags) THEN <<>>
    ELSE (IF flags[i] THEN <<ContactRows[i]>> ELSE <<>>) \o ExpectedRows(flags, i + 1)

(* C2: whichever visited pages fail, the loop goes on to every remaining
   link, and the batch is exactly the rows of the visited pages that
   succeeded and held a contact, in link order *)
C2_FailureIsolation ==
    /\ Len(kept) = Len(visited)
    /\ data_rows = ExpectedRows(kept, 1)
    /\ LoopOver => Len(kept) = Min(Len(job_links), LinkCap)
    /\ pc = "raised" => visited = <<>>

(* the first page throws during navigation, the second yields the one row *)
C2_Witness ==
    /\ pc = "done"
    /\ kept = <<FALSE, TRUE>>
    /\ prev_fault = "nav_error" /\ fault = "no_fault"
    /\ Len(data_rows) = 1
    /\ data_rows[1].post_title = PosTitle(2)

(* C3: the output file is written at most once, and it is written exactly
   when the batch is non-empty once the loop has ended *)
C3_FileIffBatchNonEmpty ==
    /\ csv_writes <= 1
    /\ csv_writes = 1 => /\ pc \in {"pause", "done"}
                         /\ data_rows # <<>>
                         /\ csv_file = CsvOf(data_rows)
    /\ pc \in {"exit_pause", "pause", "done"} => (csv_writes = 1 <=> data_rows # <<>>)

(* every visited page was skipped or rejected, and no file was written *)
C3_Witness ==
    /\ pc = "done"
    /\ Len(visited) = LinkCap
    /\ data_rows = <<>>
    /\ csv_writes = 0

(* C4: once the session is acquired no failure aborts the run; only a
   failure to acquire the session propagates out of main *)
C4_OnlySessionFailurePropagates == pc = "raised" => acquired = 0

(* C5: one session per run, released at most once; every navigation and
   page read happens while it is open; it is released before the file is
   written and before the final pause, on both paths *)
C5_SessionLifecycle ==
    /\ acquired <= 1 /\ released <= acquired
    /\ (pc # "init" /\ fault # "session_error") => acquired = 1
    /\ used_in \subseteq {"open"}
    /\ (visited # <<>> \/ pc \in {"links", "loop"}) => used_in = {"open"}
    /\ LoopOver => driver = "quit" /\ released = 1
    /\ (csv_writes > 0 \/ pauses > 0) => driver = "quit"
    /\ pauses <= 1

(* the normal path: crawled, released, written, paused *)
C5_Witness ==
    /\ pc = "done"
    /\ visited # <<>>
    /\ released = 1 /\ csv_writes = 1 /\ pauses = 1

(* the contact extract_job_data has found when it decides on the row *)
ContactEmpty(page) ==
    /\ ApplicationContact(page).application_email = <<>>
    /\ ApplicationContact(page).application_url = <<>>

(* C6: extract_job_data returns None exactly when the application email
   and the application URL are both empty *)
C6_NoneIffNoContact ==
    pc = "ret_extract" => (result.kind = "None" <=> ContactEmpty(soup))

(* C7: extract_job_data never raises on missing markup: it returns a row
   or None whatever elements the page lacks *)
C7_NeverRaises == pc = "ret_extract" => result.kind \in {"row", "None"}

(* positions of the lines that hold "requirement", whatever the case *)
SeparatorLines(lines) == {i \in DOMAIN lines : Contains(Lower(lines[i]), KW_requirement)}

(* C8: without a "requirement" line every line is description; otherwise
   the lines before the first such line are the description and all the
   lines after it are the requirements *)
C8_SplitAtFirstSeparator ==
    pc = "ret_format" =>
        LET lines == fmt.cleaned_lines
            seps == SeparatorLines(lines)
            k == CHOOSE i \in seps : \A j \in seps : i <= j
        IN  IF seps = {}
            THEN fmt.description_lines = lines /\ fmt.requirements_lines = <<>>
            ELSE /\ fmt.description_lines = SubSeq(lines, 1, k - 1)
                 /\ fmt.requirements_lines = SubSeq(lines, k + 1, Len(lines))

(* the matches of the i-th strategy, in document order *)
StrategyMatches(doc, i) ==
    LET hit == {j \in DOMAIN doc :
                  /\ doc[j].has_href
                  /\ StartsWith(doc[j].href, JOB_PREFIX)
                  /\ (i = 1 => "mag-b" \in doc[j].within)
                  /\ (i = 2 => "job-listing" \in doc[j].within)}
    IN  Hrefs(SelectSeq([j \in DOMAIN doc |-> [at |-> j, href |-> doc[j].href]],
                        LAMBDA e : e.at \in hit))

(* C9: the result is the matches of the first strategy that matches
   anything, nothing of a later strategy merged in; the blanket scan is
   used only when no strategy matches *)
C9_FirstMatchingStrategyWins ==
    pc = "ret_links" =>
        LET hits == {i \in 1..3 : StrategyMatches(listing, i) # <<>>}
        IN  IF hits = {}
            THEN job_links = FallbackScan(listing)
            ELSE job_links = StrategyMatches(listing, CHOOSE i \in hits : \A j \in hits : i <= j)

(* the second strategy wins although the third matches more *)
C9_Witness ==
    /\ pc = "ret_links"
    /\ StrategyMatches(listing, 1) = <<>>
    /\ StrategyMatches(listing, 2) # <<>>
    /\ Len(StrategyMatches(listing, 3)) > Len(StrategyMatches(listing, 2))
    /\ job_links = StrategyMatches(listing, 2)

(* C10: the title is the heading before its first " at ", the company is
   everything after that first " at " *)
C10_CompanyIsRemainder ==
    (pc = "ret_extract" /\ soup.h1.present) =>
        LET h == soup.h1.text
            at == Find(h, SEP_at, 1)
            title == IF at = 0 THEN Strip(h) ELSE Strip(SubSeq(h, 1, at - 1))
            company == IF at = 0 THEN <<>> ELSE Strip(SubSeq(h, at + Len(SEP_at), Len(h)))
        IN  /\ TitleCompany(soup.h1) = [title |-> title, company |-> company]
            /\ result.kind = "row" => result.row.company = company

===========================================================================
